---- MODULE Spec2Model ----
(***************************************************************************)
(* Financial calculation engine of the bookkeeping backend:                *)
(*   apps/business (Income, Expense, TaxCalculation, signals, admin        *)
(*   actions, tax calculation and financial summary views) and the         *)
(*   financial app's TaxCalculation model.                                 *)
(*                                                                         *)
(* Money is counted in hundredths of a yen (DecimalField, 2 decimal        *)
(* places): 650000.00 is 65000000.  Dates are day numbers, except in the   *)
(* monthly breakdown, where they are calendar dates.                       *)
(***************************************************************************)
EXTENDS Integers, Sequences, FiniteSets, TLC

VARIABLES incomes, expenses, nextId, calcs, nextCalcId, detail, now, resp,
          runs, category_is_active, accounts

vars == <<incomes, expenses, nextId, calcs, nextCalcId, detail, now, resp, runs,
          category_is_active, accounts>>

(***************************************************************************)
(* Bounds of the model                                                     *)
(***************************************************************************)
MaxTx == 2
MaxCalc == 2
MaxClock == 4

(***************************************************************************)
(* Program constants                                                       *)
(***************************************************************************)
BlueTaxCap == 65000000
BasicDeduction == 48000000

Yen(n) == n * 100

Users == {"u1", "u2"}
IsAdmin(u) == u = "u2"
Dates == {1, 2, 3}
NoDate == 0
StatusChoices == {"pending", "confirmed", "cancelled"}
CalculationTypes == {"monthly", "quarterly", "annual"}
Categories == {"c_active", "c_inactive"}
CategoryIsActive(c) == category_is_active[c]
\* The categories as first stored: one active, one not.
InitialCategories == [c \in Categories |-> c = "c_active"]
\* The user tables of the Django project and of the FastAPI application.
Backends == {"django", "fastapi"}
NoTime == 0
InitialAccounts ==
    [b \in Backends |->
        [failed_login_attempts |-> 0, account_locked_until |-> NoTime]]
NoDetail == [exists |-> FALSE]

\* Requests in flight: each one is served by its own worker.
Procs == {"p1", "p2"}
Idle == [pc |-> 0]

Max2(a, b) == IF a >= b THEN a ELSE b
Min2(a, b) == IF a <= b THEN a ELSE b

(***************************************************************************)
(* Decimal arithmetic.  a * b / c as an exact value whole + rem / c,       *)
(* computed without forming a * b.                                         *)
(***************************************************************************)
MulDiv(a, b, c) ==
    LET q == a \div c
        r == a % c
    IN [whole |-> q * b + ((r * b) \div c), rem |-> (r * b) % c, den |-> c]

\* DecimalField quantisation on save: two places, ROUND_HALF_EVEN.
Quantize(x) ==
    IF 2 * x.rem > x.den THEN x.whole + 1
    ELSE IF 2 * x.rem = x.den THEN x.whole + (x.whole % 2)
    ELSE x.whole

Exact(n) == [whole |-> n, rem |-> 0, den |-> 1]

\* x > n for an exact value x and an integer n.
Exceeds_Never(x, n) == FALSE

Exceeds(x, n) == x.whole > n \/ (x.whole = n /\ x.rem > 0)

(***************************************************************************)
(* Income / Expense model methods                                          *)
(***************************************************************************)
calculate_tax_amount(t) ==
    IF t.is_tax_inclusive
    THEN MulDiv(t.amount, t.tax_rate, 100 + t.tax_rate)
    ELSE MulDiv(t.amount, t.tax_rate, 100)

business_deductible_amount(e) ==
    Quantize(MulDiv(e.amount, e.business_use_percentage, 100))

\* Model.save(): tax_amount is computed when it is 0 and tax_rate > 0; the
\* pre_save receiver income_pre_save / expense_pre_save repeats the same
\* test.  The value is an unrounded decimal until the row is written.
AutoTax(t) ==
    IF t.tax_amount = 0 /\ t.tax_rate > 0
    THEN calculate_tax_amount(t)
    ELSE Exact(t.tax_amount)

\* pre_save receivers validate_income_business_rules /
\* validate_expense_business_rules: TRUE when the save raises ValueError.
BusinessRuleError_NoCategoryCheck(kind, t) ==
    \/ t.payment_date # NoDate /\ t.payment_date < t.date
    \/ Exceeds(AutoTax(t), t.amount)
    \/ kind = "Expense"
         /\ (t.business_use_percentage < 0 \/ t.business_use_percentage > 100)

BusinessRuleError(kind, t) ==
    \/ t.payment_date # NoDate /\ t.payment_date < t.date
    \/ Exceeds(AutoTax(t), t.amount)
    \/ kind = "Expense"
         /\ (t.business_use_percentage < 0 \/ t.business_use_percentage > 100)
    \/ ~CategoryIsActive(t.category)

\* The row as written to the table.
StoredRow(t) == [t EXCEPT !.tax_amount = Quantize(AutoTax(t))]

(***************************************************************************)
(* Tables                                                                  *)
(***************************************************************************)
RECURSIVE SumFn(_)
SumFn(f) ==
    IF DOMAIN f = {} THEN 0
    ELSE LET i == CHOOSE j \in DOMAIN f : TRUE
         IN f[i] + SumFn([j \in DOMAIN f \ {i} |-> f[j]])

\* Sum('<field>') over the rows ids of a table; None (here 0) when empty.
SumAmount(table, ids) == SumFn([i \in ids |-> table[i].amount])
SumTaxAmount(table, ids) == SumFn([i \in ids |-> table[i].tax_amount])

Insert(table, id, row) ==
    [i \in DOMAIN table \cup {id} |-> IF i = id THEN row ELSE table[i]]

Remove(table, id) == [i \in DOMAIN table \ {id} |-> table[i]]

Table(kind) == IF kind = "Income" THEN incomes ELSE expenses

Kinds == {"Income", "Expense"}

RowsCreated == (nextId["Income"] - 1) + (nextId["Expense"] - 1)

(***************************************************************************)
(* signals.invalidate_tax_calculations: every TaxCalculation of the        *)
(* instance's user whose range contains the instance's date gets           *)
(* updated_at = timezone.now().                                            *)
(***************************************************************************)
Affected(cs, user, date) ==
    {c \in DOMAIN cs :
        /\ cs[c].user = user
        /\ cs[c].start_date <= date
        /\ cs[c].end_date >= date}

invalidate_tax_calculations_AllOfUser(cs, user, date, ts) ==
    [c \in DOMAIN cs |->
        IF cs[c].user = user
        THEN [cs[c] EXCEPT !.updated_at = ts]
        ELSE cs[c]]

invalidate_tax_calculations(cs, user, date, ts) ==
    [c \in DOMAIN cs |->
        IF c \in Affected(cs, user, date)
        THEN [cs[c] EXCEPT !.updated_at = ts]
        ELSE cs[c]]

OkResp == [kind |-> "ok"]
ErrorResp == [kind |-> "error"]
NoResp == [kind |-> "none"]

(***************************************************************************)
(* Income / Expense writes                                                 *)
(***************************************************************************)
\* Model.save() of a new instance.
CreateTx(kind, t) ==
    /\ RowsCreated < MaxTx
    /\ now < MaxClock
    /\ IF BusinessRuleError(kind, t)
       THEN /\ resp' = ErrorResp
            /\ UNCHANGED <<incomes, expenses, nextId, calcs, now>>
       ELSE /\ now' = now + 1
            /\ incomes' = IF kind = "Income"
                          THEN Insert(incomes, nextId[kind], StoredRow(t))
                          ELSE incomes
            /\ expenses' = IF kind = "Expense"
                           THEN Insert(expenses, nextId[kind], StoredRow(t))
                           ELSE expenses
            /\ nextId' = [nextId EXCEPT ![kind] = @ + 1]
            /\ calcs' = invalidate_tax_calculations(calcs, t.user, t.date, now')
            /\ resp' = OkResp
    /\ UNCHANGED <<runs, nextCalcId, detail, category_is_active, accounts>>

\* Model.save() of an existing instance whose fields were set to t.
UpdateTx(kind, id, t) ==
    /\ id \in DOMAIN Table(kind)
    /\ now < MaxClock
    /\ IF BusinessRuleError(kind, t)
       THEN /\ resp' = ErrorResp
            /\ UNCHANGED <<incomes, expenses, calcs, now>>
       ELSE /\ now' = now + 1
            /\ incomes' = IF kind = "Income"
                          THEN Insert(incomes, id, StoredRow(t))
                          ELSE incomes
            /\ expenses' = IF kind = "Expense"
                           THEN Insert(expenses, id, StoredRow(t))
                           ELSE expenses
            /\ calcs' = invalidate_tax_calculations(calcs, t.user, t.date, now')
            /\ resp' = OkResp
    /\ UNCHANGED <<runs, nextId, nextCalcId, detail, category_is_active,
                   accounts>>

\* Model.delete(): post_delete runs invalidate_tax_calculations.
DeleteTx(kind, id) ==
    /\ id \in DOMAIN Table(kind)
    /\ now < MaxClock
    /\ now' = now + 1
    /\ incomes' = IF kind = "Income" THEN Remove(incomes, id) ELSE incomes
    /\ expenses' = IF kind = "Expense" THEN Remove(expenses, id) ELSE expenses
    /\ calcs' = invalidate_tax_calculations(
                    calcs, Table(kind)[id].user, Table(kind)[id].date, now')
    /\ resp' = OkResp
    /\ UNCHANGED <<runs, nextId, nextCalcId, detail, category_is_active,
                   accounts>>

\* admin.mark_incomes_confirmed / mark_expenses_confirmed:
\* queryset.update(status='confirmed'); QuerySet.update sends no signals.
SetConfirmed(table, ids) ==
    [i \in DOMAIN table |->
        IF i \in ids THEN [table[i] EXCEPT !.status = "confirmed"]
        ELSE table[i]]

MarkConfirmed(kind, ids) ==
    /\ ids # {}
    /\ ids \subseteq DOMAIN Table(kind)
    /\ now < MaxClock
    /\ now' = now + 1
    /\ incomes' = IF kind = "Income" THEN SetConfirmed(incomes, ids) ELSE incomes
    /\ expenses' = IF kind = "Expense" THEN SetConfirmed(expenses, ids) ELSE expenses
    /\ resp' = OkResp
    /\ UNCHANGED <<runs, nextId, calcs, nextCalcId, detail,
                   category_is_active, accounts>>


(***************************************************************************)
(* Period aggregation                                                      *)
(***************************************************************************)
\* Model.objects.filter(user=, date__gte=, date__lte=, status='confirmed')
ConfirmedInPeriod(table, user, start_date, end_date) ==
    {i \in DOMAIN table :
        /\ table[i].user = user
        /\ table[i].date >= start_date
        /\ table[i].date <= end_date
        /\ table[i].status = "confirmed"}

\* FinancialSummaryView.get: the querysets handed to _calculate_summary.
SummaryRows(table, user, start_date, end_date) ==
    {i \in DOMAIN table :
        /\ IsAdmin(user) \/ table[i].user = user
        /\ table[i].date >= start_date
        /\ table[i].date <= end_date}

HasApprovedDetail(user) ==
    detail[user].exists /\ detail[user].blue_tax_return_approved

\* TaxCalculationViewSet._calculate_tax_for_period
BlueTaxDeduction_NoApproval(user, net_income) == Min2(net_income, BlueTaxCap)

BlueTaxDeduction(user, net_income) ==
    IF HasApprovedDetail(user) THEN Min2(net_income, BlueTaxCap) ELSE 0

TaxableIncome_NoFloor(net_income, blue_tax_deduction) ==
    net_income - blue_tax_deduction

TaxableIncome(net_income, blue_tax_deduction) ==
    Max2(net_income - blue_tax_deduction, 0)

_calculate_tax_for_period(user, start_date, end_date, calculation_type) ==
    LET inc == ConfirmedInPeriod(incomes, user, start_date, end_date)
        exp == ConfirmedInPeriod(expenses, user, start_date, end_date)
        total_income == SumAmount(incomes, inc)
        total_income_tax == SumTaxAmount(incomes, inc)
        total_expenses == SumAmount(expenses, exp)
        total_expense_tax == SumTaxAmount(expenses, exp)
        business_expenses ==
            SumFn([i \in exp |-> business_deductible_amount(expenses[i])])
        net_income == total_income - business_expenses
        blue_tax_deduction == BlueTaxDeduction(user, net_income)
    IN [kind |-> "calculation",
        user |-> user,
        period_start |-> start_date,
        period_end |-> end_date,
        calculation_type |-> calculation_type,
        total_income |-> total_income,
        total_income_tax |-> total_income_tax,
        total_expenses |-> total_expenses,
        business_expenses |-> business_expenses,
        total_expense_tax |-> total_expense_tax,
        net_income |-> net_income,
        net_tax |-> total_income_tax - total_expense_tax,
        blue_tax_deduction |-> blue_tax_deduction,
        taxable_income |-> TaxableIncome(net_income, blue_tax_deduction),
        income_count |-> Cardinality(inc),
        expense_count |-> Cardinality(exp)]

\* FinancialSummaryView._calculate_summary (totals)
SummaryNetIncome(total_income, total_expenses) == total_income - total_expenses

_calculate_summary(user, start_date, end_date) ==
    LET inc == SummaryRows(incomes, user, start_date, end_date)
        exp == SummaryRows(expenses, user, start_date, end_date)
        total_income == SumAmount(incomes, inc)
        total_expenses == SumAmount(expenses, exp)
        total_income_tax == SumTaxAmount(incomes, inc)
        total_expense_tax == SumTaxAmount(expenses, exp)
    IN [kind |-> "summary",
        user |-> user,
        period_start |-> start_date,
        period_end |-> end_date,
        total_income |-> total_income,
        total_expenses |-> total_expenses,
        net_income |-> SummaryNetIncome(total_income, total_expenses),
        total_income_tax |-> total_income_tax,
        total_expense_tax |-> total_expense_tax,
        net_tax |-> total_income_tax - total_expense_tax]

\* admin.calculate_period_totals, the body of the loop for one record.
RecalculatedTotals(calculation, ts) ==
    LET inc == ConfirmedInPeriod(incomes, calculation.user,
                                 calculation.start_date, calculation.end_date)
        exp == ConfirmedInPeriod(expenses, calculation.user,
                                 calculation.start_date, calculation.end_date)
        total_income == SumAmount(incomes, inc)
        total_income_tax == SumTaxAmount(incomes, inc)
        total_expenses == SumAmount(expenses, exp)
        total_expense_tax == SumTaxAmount(expenses, exp)
        net_income == total_income - total_expenses
    IN [calculation EXCEPT
          !.total_income = total_income,
          !.total_income_tax = total_income_tax,
          !.total_expenses = total_expenses,
          !.total_expense_tax = total_expense_tax,
          !.net_income = net_income,
          !.net_tax = total_income_tax - total_expense_tax,
          !.taxable_income = Max2(net_income - calculation.blue_tax_deduction, 0),
          !.updated_at = ts]

\* financial.models.TaxCalculation properties
FinNetIncome(f) == f.total_income - f.total_deductible_expenses
FinTotalDeductions(f) ==
    f.basic_deduction + f.blue_form_deduction + f.other_deductions
FinTaxableIncome(f) == Max2(FinNetIncome(f) - FinTotalDeductions(f), 0)

(***************************************************************************)
(* TaxCalculation operations                                               *)
(***************************************************************************)
KeyOf(c) == <<c.user, c.calculation_type, c.start_date, c.end_date>>

\* A new TaxCalculation row: the totals are read-only in the serializer and
\* take the model defaults.
NewCalculation(user, calculation_type, start_date, end_date, blue, ts) ==
    [user |-> user,
     calculation_type |-> calculation_type,
     start_date |-> start_date,
     end_date |-> end_date,
     total_income |-> 0,
     total_income_tax |-> 0,
     total_expenses |-> 0,
     total_expense_tax |-> 0,
     net_income |-> 0,
     net_tax |-> 0,
     blue_tax_deduction |-> blue,
     taxable_income |-> 0,
     updated_at |-> ts,
     is_final |-> FALSE]

\* TaxCalculationViewSet.create: TaxCalculationSerializer.validate, the
\* unique_together validator, then perform_create.
CreateTaxCalculation(user, calculation_type, start_date, end_date, blue) ==
    /\ nextCalcId <= MaxCalc
    /\ now < MaxClock
    /\ IF \/ start_date >= end_date
          \/ \E c \in DOMAIN calcs :
                KeyOf(calcs[c]) = <<user, calculation_type, start_date, end_date>>
       THEN /\ resp' = ErrorResp
            /\ UNCHANGED <<calcs, nextCalcId, now>>
       ELSE /\ now' = now + 1
            /\ calcs' = Insert(calcs, nextCalcId,
                               NewCalculation(user, calculation_type, start_date,
                                              end_date, blue, now'))
            /\ nextCalcId' = nextCalcId + 1
            /\ resp' = OkResp
    /\ UNCHANGED <<runs, incomes, expenses, nextId, detail,
                   category_is_active, accounts>>

\* The explicit transition to FINAL: is_final is set and the row is saved.
Finalize(c) ==
    /\ c \in DOMAIN calcs
    /\ ~calcs[c].is_final
    /\ now < MaxClock
    /\ now' = now + 1
    /\ calcs' = [calcs EXCEPT ![c].is_final = TRUE, ![c].updated_at = now']
    /\ resp' = OkResp
    /\ UNCHANGED <<runs, incomes, expenses, nextId, nextCalcId, detail,
                   category_is_active, accounts>>

\* admin.calculate_period_totals over the selected records.
calculate_period_totals(queryset) ==
    /\ queryset # {}
    /\ queryset \subseteq DOMAIN calcs
    /\ now < MaxClock
    /\ now' = now + 1
    /\ calcs' = [c \in DOMAIN calcs |->
                    IF c \in queryset THEN RecalculatedTotals(calcs[c], now')
                    ELSE calcs[c]]
    /\ resp' = OkResp
    /\ UNCHANGED <<runs, incomes, expenses, nextId, nextCalcId, detail,
                   category_is_active, accounts>>

\* TaxCalculationViewSet.calculate: 400 when a date is missing or does not
\* parse; otherwise computes and returns, stores nothing.
Calculate(user, start_date, end_date, calculation_type) ==
    /\ resp' = IF start_date = NoDate \/ end_date = NoDate
                THEN ErrorResp
                ELSE _calculate_tax_for_period(user, start_date, end_date,
                                               calculation_type)
    /\ UNCHANGED <<runs, incomes, expenses, nextId, calcs, nextCalcId, detail,
                   category_is_active, accounts, now>>

\* FinancialSummaryView.get
Summary(user, start_date, end_date) ==
    /\ resp' = _calculate_summary(user, start_date, end_date)
    /\ UNCHANGED <<runs, incomes, expenses, nextId, calcs, nextCalcId, detail,
                   category_is_active, accounts, now>>

\* UserDetail.blue_tax_return_approved is saved.
SetBlueTaxApproval(user, approved) ==
    /\ detail[user].exists
    /\ detail' = [detail EXCEPT ![user].blue_tax_return_approved = approved]
    /\ resp' = OkResp
    /\ UNCHANGED <<runs, incomes, expenses, nextId, calcs, nextCalcId, now,
                   category_is_active, accounts>>

(***************************************************************************)
(* Inputs                                                                  *)
(***************************************************************************)
Empty == [i \in {} |-> 0]

IncomeRows(users, dates, amounts, statuses, categories, taxes) ==
    [user : users, category : categories, date : dates, amount : amounts,
     payment_date : {NoDate}, tax_amount : taxes, tax_rate : {10},
     is_tax_inclusive : {TRUE}, status : statuses]

ExpenseRows(users, dates, amounts, statuses, categories, taxes, percentages) ==
    [user : users, category : categories, date : dates, amount : amounts,
     payment_date : {NoDate}, tax_amount : taxes, tax_rate : {10},
     is_tax_inclusive : {TRUE}, status : statuses,
     business_use_percentage : percentages]

WriteInputs(kind) ==
    IF kind = "Income"
    THEN IncomeRows(Users, Dates, {Yen(1200000)}, StatusChoices,
                    Categories, {0})
    ELSE ExpenseRows(Users, Dates, {Yen(1200000)}, StatusChoices,
                     Categories, {0}, {60})

PeriodInputs == {<<1, 2>>, <<2, 3>>, <<2, 2>>}

CalcTypeInputs == {"annual"}

(***************************************************************************)
(* The write path                                                          *)
(***************************************************************************)
Init ==
    /\ category_is_active = InitialCategories
    /\ accounts = InitialAccounts
    /\ incomes = Empty
    /\ expenses = Empty
    /\ nextId = [k \in Kinds |-> 1]
    /\ calcs = Empty
    /\ nextCalcId = 1
    /\ detail = [u \in Users |->
                    IF u = "u1"
                    THEN [exists |-> TRUE, blue_tax_return_approved |-> FALSE]
                    ELSE NoDetail]
    /\ now = 0
    /\ resp = NoResp
    /\ runs = [p \in Procs |-> Idle]

Next ==
    \/ \E k \in Kinds : \E t \in WriteInputs(k) : CreateTx(k, t)
    \/ \E k \in Kinds : \E id \in 1..MaxTx : \E t \in WriteInputs(k) :
          UpdateTx(k, id, t)
    \/ \E k \in Kinds : \E id \in 1..MaxTx : DeleteTx(k, id)
    \/ \E k \in Kinds : \E ids \in SUBSET (1..MaxTx) : MarkConfirmed(k, ids)
    \/ \E u \in Users : \E p \in PeriodInputs : \E ct \in CalcTypeInputs :
          CreateTaxCalculation(u, ct, p[1], p[2], 0)
    \/ \E c \in 1..MaxCalc : Finalize(c)
    \/ \E q \in SUBSET (1..MaxCalc) : calculate_period_totals(q)

Spec == Init /\ [][Next]_vars

(***************************************************************************)
(* The read path: the aggregations applied to a stored set of rows         *)
(***************************************************************************)
\* A property read on a financial.models.TaxCalculation row with fields f.
FinRead(f) ==
    /\ resp' = [kind |-> "fin",
                row |-> f,
                net_income |-> FinNetIncome(f),
                total_deductions |-> FinTotalDeductions(f),
                taxable_income |-> FinTaxableIncome(f)]
    /\ UNCHANGED <<runs, incomes, expenses, nextId, calcs, nextCalcId, detail,
                   category_is_active, accounts, now>>

Saved(kind, rows) == {StoredRow(t) : t \in {r \in rows : ~BusinessRuleError(kind, r)}}

AggIncomes ==
    Saved("Income",
          IncomeRows(Users, {1}, {Yen(500000), Yen(1200000)}, StatusChoices,
                     {"c_active"}, {0}))

AggExpenses ==
    Saved("Expense",
          ExpenseRows({"u1"}, {1}, {Yen(1200000)}, StatusChoices,
                      {"c_active"}, {0}, {60, 100}))

AggPeriods == {<<1, 2>>, <<2, 3>>}

\* The request bodies of calculate: also an empty range, a reversed range
\* and a missing start_date.
CalculatePeriods == AggPeriods \cup {<<2, 2>>, <<2, 1>>, <<NoDate, 2>>}

FinInputs ==
    [total_income : {Yen(500000), Yen(1200000)},
     total_deductible_expenses : {Yen(720000)},
     basic_deduction : {BasicDeduction},
     blue_form_deduction : {0, BlueTaxCap},
     other_deductions : {0},
     is_final : {FALSE}]

InitAgg ==
    /\ category_is_active = InitialCategories
    /\ accounts = InitialAccounts
    /\ \E ni \in 0..MaxTx : \E ne \in 0..(MaxTx - ni) :
          /\ incomes \in [1..ni -> AggIncomes]
          /\ expenses \in [1..ne -> AggExpenses]
          /\ nextId = [k \in Kinds |-> IF k = "Income" THEN ni + 1 ELSE ne + 1]
    /\ calcs = Insert(Empty, 1,
                      NewCalculation("u1", "annual", 1, 2, BlueTaxCap, 0))
    /\ nextCalcId = 2
    /\ detail = [u \in Users |->
                    IF u = "u1"
                    THEN [exists |-> TRUE, blue_tax_return_approved |-> FALSE]
                    ELSE NoDetail]
    /\ now = 0
    /\ resp = NoResp
    /\ runs = [p \in Procs |-> Idle]

NextAgg ==
    \/ \E u \in Users : \E p \in CalculatePeriods : \E ct \in CalcTypeInputs :
          Calculate(u, p[1], p[2], ct)
    \/ \E u \in Users : \E p \in AggPeriods : Summary(u, p[1], p[2])
    \/ \E q \in SUBSET (1..MaxCalc) : calculate_period_totals(q)
    \/ \E u \in Users : \E b \in BOOLEAN : SetBlueTaxApproval(u, b)
    \/ \E f \in FinInputs : FinRead(f)

SpecAgg == InitAgg /\ [][NextAgg]_vars

(***************************************************************************)
(* Concurrent requests.  No request of the business app opens a            *)
(* transaction around its reads: every ORM query and every save() is a     *)
(* statement of its own, and statements of other requests commit between   *)
(* two of them.                                                            *)
(***************************************************************************)
Store == [incomes |-> incomes, expenses |-> expenses]

\* <queryset>.aggregate(Sum(...)) of calculate_period_totals and of
\* _calculate_tax_for_period, evaluated when the statement runs.
AggregateQuery(field, user, start_date, end_date) ==
    LET inc == ConfirmedInPeriod(incomes, user, start_date, end_date)
        exp == ConfirmedInPeriod(expenses, user, start_date, end_date)
    IN CASE field = "total_income" -> SumAmount(incomes, inc)
         [] field = "total_income_tax" -> SumTaxAmount(incomes, inc)
         [] field = "total_expenses" -> SumAmount(expenses, exp)
         [] field = "total_expense_tax" -> SumTaxAmount(expenses, exp)

QueryOrder ==
    <<"total_income", "total_income_tax", "total_expenses", "total_expense_tax">>

\* admin.calculate_period_totals run on a selection of one record (a
\* larger selection repeats the same statements record after record).
\* "for calculation in queryset": the row is fetched into an instance.
RecalcBegin(p, c) ==
    /\ runs[p].pc = 0
    /\ c \in DOMAIN calcs
    /\ runs' = [runs EXCEPT ![p] = [pc |-> 1,
                                    c |-> c,
                                    calculation |-> calcs[c],
                                    seen |-> {}]]
    /\ UNCHANGED <<incomes, expenses, nextId, calcs, nextCalcId, detail,
                   category_is_active, accounts, now, resp>>

\* One of the four aggregate statements; its value is set on the instance.
\* seen collects the table contents the statements of this run have read.
RecalcQuery(p) ==
    /\ runs[p].pc \in 1..4
    /\ LET f == QueryOrder[runs[p].pc]
           calculation == runs[p].calculation
           v == AggregateQuery(f, calculation.user, calculation.start_date,
                               calculation.end_date)
       IN runs' = [runs EXCEPT ![p].pc = @ + 1,
                               ![p].calculation[f] = v,
                               ![p].seen = @ \cup {Store}]
    /\ UNCHANGED <<incomes, expenses, nextId, calcs, nextCalcId, detail,
                   category_is_active, accounts, now, resp>>

\* The fields computed from the four totals on the instance.
DerivedTotals(calculation) ==
    LET net_income == calculation.total_income - calculation.total_expenses
    IN [calculation EXCEPT
          !.net_income = net_income,
          !.net_tax = calculation.total_income_tax
                      - calculation.total_expense_tax,
          !.taxable_income =
              Max2(net_income - calculation.blue_tax_deduction, 0)]

\* Model.save() of an existing instance without update_fields: one UPDATE
\* that sets every column from the instance; auto_now sets updated_at.
SavedRow_ChangedColumns(stored, calculation, ts) ==
    [stored EXCEPT !.total_income = calculation.total_income,
                   !.total_income_tax = calculation.total_income_tax,
                   !.net_income = calculation.net_income,
                   !.updated_at = ts]

SavedRow(stored, calculation, ts) == [calculation EXCEPT !.updated_at = ts]

\* The derived fields are set and calculation.save() runs; the action
\* then reports success.
RecalcSave(p) ==
    /\ runs[p].pc = 5
    /\ now < MaxClock
    /\ now' = now + 1
    /\ calcs' = [calcs EXCEPT ![runs[p].c] =
                    SavedRow(calcs[runs[p].c],
                             DerivedTotals(runs[p].calculation), now')]
    /\ runs' = [runs EXCEPT ![p] = Idle]
    /\ resp' = OkResp
    /\ UNCHANGED <<incomes, expenses, nextId, nextCalcId, detail,
                   category_is_active, accounts>>

\* Transactions written while recalculations are in flight.
ConcInputs(kind) ==
    IF kind = "Income"
    THEN IncomeRows({"u1"}, {1}, {Yen(1200000)}, {"confirmed"},
                    {"c_active"}, {0})
    ELSE ExpenseRows({"u1"}, {1}, {Yen(1200000)}, {"confirmed"},
                     {"c_active"}, {0}, {60})

InitConc ==
    /\ category_is_active = InitialCategories
    /\ accounts = InitialAccounts
    /\ incomes = Empty
    /\ expenses = Empty
    /\ nextId = [k \in Kinds |-> 1]
    /\ calcs = Insert(Empty, 1, NewCalculation("u1", "annual", 1, 2, 0, 0))
    /\ nextCalcId = 2
    /\ detail = [u \in Users |->
                    IF u = "u1"
                    THEN [exists |-> TRUE, blue_tax_return_approved |-> FALSE]
                    ELSE NoDetail]
    /\ now = 0
    /\ resp = NoResp
    /\ runs = [p \in Procs |-> Idle]

NextConc ==
    \/ \E k \in Kinds : \E t \in ConcInputs(k) : CreateTx(k, t)
    \/ \E p \in Procs : \E c \in 1..MaxCalc : RecalcBegin(p, c)
    \/ \E p \in Procs : RecalcQuery(p)
    \/ \E p \in Procs : RecalcSave(p)

SpecConc == InitConc /\ [][NextConc]_vars

(***************************************************************************)
(* Saving transactions: the REST handlers (serializer validation, then     *)
(* Model.save()) and Model.save() on its own, with inputs that break one   *)
(* rule at a time.                                                         *)
(***************************************************************************)
Today == 3

\* IncomeSerializer / ExpenseSerializer.is_valid(): the field validators,
\* validate_amount, validate_date, validate_payment_date,
\* validate_business_use_percentage and validate.  TRUE when it fails.
SerializerError(kind, t) ==
    \/ t.amount <= 0
    \/ t.date > Today
    \/ t.payment_date # NoDate /\ t.payment_date > Today
    \/ kind = "Expense"
         /\ (t.business_use_percentage < 0 \/ t.business_use_percentage > 100)
    \/ t.payment_date # NoDate /\ t.payment_date < t.date

\* IncomeViewSet / ExpenseViewSet.create: is_valid(), then perform_create.
\* validate() fills in tax_amount as Model.save() would.
ApiCreate(kind, t) ==
    IF SerializerError(kind, t)
    THEN /\ RowsCreated < MaxTx
         /\ resp' = ErrorResp
         /\ UNCHANGED <<incomes, expenses, nextId, calcs, nextCalcId, detail,
                        category_is_active, accounts, now, runs>>
    ELSE CreateTx(kind, t)

\* IncomeViewSet / ExpenseViewSet.update: is_valid(), then perform_update.
ApiUpdate(kind, id, t) ==
    IF SerializerError(kind, t)
    THEN /\ id \in DOMAIN Table(kind)
         /\ resp' = ErrorResp
         /\ UNCHANGED <<incomes, expenses, nextId, calcs, nextCalcId, detail,
                        category_is_active, accounts, now, runs>>
    ELSE UpdateTx(kind, id, t)

SaveBase(kind) ==
    IF kind = "Income"
    THEN [user |-> "u1", category |-> "c_active", date |-> 1,
          amount |-> Yen(1000), payment_date |-> NoDate, tax_amount |-> 0,
          tax_rate |-> 10, is_tax_inclusive |-> TRUE, status |-> "confirmed"]
    ELSE [user |-> "u1", category |-> "c_active", date |-> 1,
          amount |-> Yen(1000), payment_date |-> NoDate, tax_amount |-> 0,
          tax_rate |-> 10, is_tax_inclusive |-> TRUE, status |-> "confirmed",
          business_use_percentage |-> 60]

\* The base row, and the base row with one rule broken or one field varied.
SaveInputs(kind) ==
    LET b == SaveBase(kind)
    IN {b,
        [b EXCEPT !.status = "cancelled"],
        [b EXCEPT !.date = Today + 1],
        [b EXCEPT !.amount = 0 - Yen(1000)],
        [b EXCEPT !.amount = 0 - Yen(1000), !.tax_amount = 0 - Yen(2000)],
        [b EXCEPT !.tax_amount = Yen(2000)],
        [b EXCEPT !.tax_rate = 150],
        [b EXCEPT !.tax_rate = 150, !.is_tax_inclusive = FALSE],
        [b EXCEPT !.date = 2, !.payment_date = 1],
        [b EXCEPT !.category = "c_inactive"]}
       \cup (IF kind = "Expense"
             THEN {[b EXCEPT !.business_use_percentage = 150]}
             ELSE {})

\* Model.save() called without a serializer is exercised on the inputs a
\* serializer refuses; on the others it does what the REST handlers do.
DirectInputs(kind) == {t \in SaveInputs(kind) : SerializerError(kind, t)}

InitSave ==
    /\ category_is_active = InitialCategories
    /\ accounts = InitialAccounts
    /\ incomes = Empty
    /\ expenses = Empty
    /\ nextId = [k \in Kinds |-> 1]
    /\ calcs = Insert(Insert(Insert(Empty,
                 1, NewCalculation("u1", "annual", 1, 2, BlueTaxCap, 0)),
                 2, NewCalculation("u2", "annual", 1, 2, 0, 0)),
                 3, NewCalculation("u1", "annual", 2, 3, 0, 0))
    /\ nextCalcId = 4
    /\ detail = [u \in Users |->
                    IF u = "u1"
                    THEN [exists |-> TRUE, blue_tax_return_approved |-> FALSE]
                    ELSE NoDetail]
    /\ now = 0
    /\ resp = NoResp
    /\ runs = [p \in Procs |-> Idle]

NextSave ==
    \/ \E k \in Kinds : \E t \in SaveInputs(k) : ApiCreate(k, t)
    \/ \E k \in Kinds : \E id \in 1..MaxTx : \E t \in SaveInputs(k) :
          ApiUpdate(k, id, t)
    \/ \E k \in Kinds : \E t \in DirectInputs(k) : CreateTx(k, t)
    \/ \E k \in Kinds : \E id \in 1..MaxTx : \E t \in DirectInputs(k) :
          UpdateTx(k, id, t)
    \/ \E k \in Kinds : \E id \in 1..MaxTx : DeleteTx(k, id)
    \/ \E q \in SUBSET (1..MaxCalc) : calculate_period_totals(q)

SpecSave == InitSave /\ [][NextSave]_vars

(***************************************************************************)
(* The monthly breakdown of the financial summary.  Here a date is a       *)
(* calendar date written as the number yyyymmdd, which orders dates as     *)
(* datetime.date does.                                                     *)
(***************************************************************************)
Year(d) == d \div 10000
Month(d) == (d \div 100) % 100
Day(d) == d % 100
MakeDate(y, m, d) == y * 10000 + m * 100 + d

IsLeap(y) == (y % 4 = 0 /\ y % 100 # 0) \/ y % 400 = 0

DaysInMonth(y, m) ==
    IF m = 2 THEN (IF IsLeap(y) THEN 29 ELSE 28)
    ELSE IF m \in {4, 6, 9, 11} THEN 30
    ELSE 31

\* d - timedelta(days=1)
DayBefore(d) ==
    IF Day(d) > 1 THEN d - 1
    ELSE IF Month(d) = 1 THEN MakeDate(Year(d) - 1, 12, 31)
    ELSE MakeDate(Year(d), Month(d) - 1, DaysInMonth(Year(d), Month(d) - 1))

\* The first day of the month after that of d (d is a first of a month):
\* replace(year + 1, month=1) in December, replace(month + 1) otherwise.
NextMonth_NoYearChange(d) == MakeDate(Year(d), Month(d) + 1, 1)

NextMonth(d) ==
    IF Month(d) = 12 THEN MakeDate(Year(d) + 1, 1, 1)
    ELSE MakeDate(Year(d), Month(d) + 1, 1)

\* The rows ids of a table dated in [first, last].
DatedBetween(table, ids, first, last) ==
    {i \in ids : table[i].date >= first /\ table[i].date <= last}

\* The "while current_date <= end_date" loop of _calculate_summary; inc and
\* exp are the querysets handed in, month is strftime('%Y-%m').
RECURSIVE MonthlyData(_, _, _, _)
MonthlyData(inc, exp, current_date, end_date) ==
    IF current_date > end_date THEN <<>>
    ELSE LET month_end == DayBefore(NextMonth(current_date))
             last == Min2(month_end, end_date)
             month_income_total ==
                 SumAmount(incomes,
                           DatedBetween(incomes, inc, current_date, last))
             month_expense_total ==
                 SumAmount(expenses,
                           DatedBetween(expenses, exp, current_date, last))
         IN <<[month |-> <<Year(current_date), Month(current_date)>>,
               income |-> month_income_total,
               expenses |-> month_expense_total,
               net |-> month_income_total - month_expense_total]>>
            \o MonthlyData(inc, exp, NextMonth(current_date), end_date)

\* FinancialSummaryView.get with both dates given: the summary with its
\* monthly_data; current_date starts at start_date.replace(day=1).
MonthlySummary(user, start_date, end_date) ==
    /\ resp' = [kind |-> "monthly",
                summary |-> _calculate_summary(user, start_date, end_date),
                monthly_data |->
                    MonthlyData(
                        SummaryRows(incomes, user, start_date, end_date),
                        SummaryRows(expenses, user, start_date, end_date),
                        MakeDate(Year(start_date), Month(start_date), 1),
                        end_date)]
    /\ UNCHANGED <<incomes, expenses, nextId, calcs, nextCalcId, detail,
                   category_is_active, accounts, now, runs>>

CalendarDates ==
    {20231115, 20231201, 20231231, 20240101, 20240131, 20240215, 20240229,
     20240301}

MonthIncomes ==
    Saved("Income",
          IncomeRows({"u1"}, {20231231, 20240229}, {Yen(1000)}, {"confirmed"},
                     {"c_active"}, {0}))

MonthExpenses ==
    Saved("Expense",
          ExpenseRows({"u1"}, {20231115, 20240229}, {Yen(1000)},
                      {"confirmed"}, {"c_active"}, {0}, {60}))

InitMonthly ==
    /\ category_is_active = InitialCategories
    /\ accounts = InitialAccounts
    /\ \E ni \in 0..MaxTx : \E ne \in 0..(MaxTx - ni) :
          /\ incomes \in [1..ni -> MonthIncomes]
          /\ expenses \in [1..ne -> MonthExpenses]
          /\ nextId = [k \in Kinds |-> IF k = "Income" THEN ni + 1 ELSE ne + 1]
    /\ calcs = Empty
    /\ nextCalcId = 1
    /\ detail = [u \in Users |->
                    IF u = "u1"
                    THEN [exists |-> TRUE, blue_tax_return_approved |-> FALSE]
                    ELSE NoDetail]
    /\ now = 0
    /\ resp = NoResp
    /\ runs = [p \in Procs |-> Idle]

NextMonthly ==
    \E u \in Users : \E s \in CalendarDates : \E e \in CalendarDates :
       MonthlySummary(u, s, e)

SpecMonthly == InitMonthly /\ [][NextMonthly]_vars

(***************************************************************************)
(* Per-transaction amounts: the accessors of the business models and of    *)
(* the financial app's models, read on an instance and on the saved row.   *)
(***************************************************************************)
\* n - x for an integer n and an exact value x.
Minus(n, x) ==
    IF x.rem = 0 THEN [whole |-> n - x.whole, rem |-> 0, den |-> x.den]
    ELSE [whole |-> n - x.whole - 1, rem |-> x.den - x.rem, den |-> x.den]

\* business Income / Expense.amount_excluding_tax
amount_excluding_tax_NoSubtraction(t) == t.amount

amount_excluding_tax(t) ==
    IF t.is_tax_inclusive THEN t.amount - t.tax_amount ELSE t.amount

\* business Income / Expense.amount_including_tax
amount_including_tax(t) ==
    IF t.is_tax_inclusive THEN t.amount ELSE t.amount + t.tax_amount

\* financial Income / Expense.net_amount; these models have amount and
\* tax_amount and no is_tax_inclusive field.
net_amount(t) == t.amount - t.tax_amount

\* An instance is given its computed tax and is saved; the accessors are
\* read on the saved row, and the tax-exclusive amount is also taken from
\* the unrounded tax and rounded by itself.
ReadAmounts(t) ==
    /\ ~BusinessRuleError("Income", t)
    /\ LET row == StoredRow(t)
       IN resp' = [kind |-> "amounts",
                   input |-> t,
                   row |-> row,
                   amount_excluding_tax |-> amount_excluding_tax(row),
                   amount_including_tax |-> amount_including_tax(row),
                   net_amount |-> net_amount(row),
                   excluding_rounded |->
                       IF t.is_tax_inclusive
                       THEN Quantize(Minus(t.amount, AutoTax(t)))
                       ELSE t.amount]
    /\ UNCHANGED <<incomes, expenses, nextId, calcs, nextCalcId, detail,
                   category_is_active, accounts, now, runs>>

AmountInputs ==
    [user : {"u1"}, category : {"c_active"}, date : {1},
     amount : 1..40 \cup {Yen(100), Yen(10000), Yen(1200000)},
     payment_date : {NoDate}, tax_amount : {0}, tax_rate : {0, 8, 10, 100},
     is_tax_inclusive : BOOLEAN, status : {"confirmed"}]

NextAmount == \E t \in AmountInputs : ReadAmounts(t)

SpecAmount == Init /\ [][NextAmount]_vars

(***************************************************************************)
(* Assets of the financial app.  An Asset is written through the ORM only; *)
(* Model.save() runs no field validators, accumulated_depreciation has     *)
(* none, and the post_save receiver is empty.                              *)
(***************************************************************************)
DepreciationMethods == {"straight_line", "declining_balance"}

\* Asset.annual_depreciation
annual_depreciation_IgnoringSalvage(a) ==
    IF a.depreciation_method = "straight_line"
    THEN MulDiv(a.purchase_amount, 1, a.useful_life_years)
    ELSE MulDiv(a.purchase_amount, 2, 10)

annual_depreciation(a) ==
    IF a.depreciation_method = "straight_line"
    THEN MulDiv(a.purchase_amount - a.salvage_value, 1, a.useful_life_years)
    ELSE MulDiv(a.purchase_amount, 2, 10)

\* Asset.book_value
book_value(a) == a.purchase_amount - a.accumulated_depreciation

\* An Asset is saved and its two properties are read.
SaveAsset(a) ==
    /\ resp' = [kind |-> "asset",
                asset |-> a,
                annual_depreciation |-> annual_depreciation(a),
                book_value |-> book_value(a)]
    /\ UNCHANGED <<incomes, expenses, nextId, calcs, nextCalcId, detail,
                   category_is_active, accounts, now, runs>>

AssetInputs ==
    [purchase_amount : {Yen(1000), Yen(10000), Yen(1200000)},
     salvage_value : {0, Yen(100)},
     useful_life_years : {1, 3, 5},
     depreciation_method : DepreciationMethods,
     accumulated_depreciation : {0, Yen(500), Yen(950), Yen(2000)}]

NextAsset == \E a \in AssetInputs : SaveAsset(a)

SpecAsset == Init /\ [][NextAsset]_vars

(***************************************************************************)
(* The quarter filter of the Income and Expense list endpoints.  A         *)
(* queryset is a set of transactions, each with an id and a yyyymmdd date. *)
(***************************************************************************)
\* IncomeFilter / ExpenseFilter.filter_quarter
filter_quarter_EndExclusive(queryset, value) ==
    IF value \in {1, 2, 3, 4}
    THEN LET start_month == (value - 1) * 3 + 1
             end_month == value * 3
         IN {r \in queryset :
                Month(r.date) >= start_month /\ Month(r.date) < end_month}
    ELSE queryset

filter_quarter(queryset, value) ==
    IF value \in {1, 2, 3, 4}
    THEN LET start_month == (value - 1) * 3 + 1
             end_month == value * 3
         IN {r \in queryset :
                Month(r.date) >= start_month /\ Month(r.date) <= end_month}
    ELSE queryset

\* GET of a list with ?quarter=value
ListByQuarter(queryset, value) ==
    /\ resp' = [kind |-> "filtered",
                quarter |-> value,
                queryset |-> queryset,
                result |-> filter_quarter(queryset, value)]
    /\ UNCHANGED <<incomes, expenses, nextId, calcs, nextCalcId, detail,
                   category_is_active, accounts, now, runs>>

\* One date in every month, over two years.
QuarterDates == {MakeDate(2024 + (m % 2), m, 10 + m) : m \in 1..12}

QuarterQuerysets ==
    {{}} \cup {{[id |-> 1, date |-> d]} : d \in QuarterDates}
         \cup {{[id |-> 1, date |-> d], [id |-> 2, date |-> e]} :
                  d \in QuarterDates, e \in {20240930, 20241001, 20251231}}

QuarterValues == 0..5

NextQuarter ==
    \E queryset \in QuarterQuerysets, value \in QuarterValues :
        ListByQuarter(queryset, value)

SpecQuarter == Init /\ [][NextQuarter]_vars

(***************************************************************************)
(* Categories that are deactivated while transactions refer to them.       *)
(***************************************************************************)
\* IncomeCategoryViewSet / ExpenseCategoryViewSet.update with is_active in
\* the request; the post_save receiver of a category writes an audit entry.
SetCategoryActive(c, value) ==
    /\ category_is_active[c] # value
    /\ category_is_active' = [category_is_active EXCEPT ![c] = value]
    /\ resp' = OkResp
    /\ UNCHANGED <<incomes, expenses, nextId, calcs, nextCalcId, detail, now,
                   runs, accounts>>

\* IncomeViewSet / ExpenseViewSet.partial_update with status alone in the
\* request: the stored instance gets the status and is saved.
ApiSetStatus(kind, id, status) ==
    /\ id \in DOMAIN Table(kind)
    /\ Table(kind)[id].status # status
    /\ UpdateTx(kind, id, [Table(kind)[id] EXCEPT !.status = status])

CategoryInputs(kind) ==
    IF kind = "Income"
    THEN IncomeRows({"u1"}, {1, 2}, {Yen(1200000)}, {"pending", "confirmed"},
                    Categories, {0})
    ELSE ExpenseRows({"u1"}, {1, 2}, {Yen(1200000)}, {"pending", "confirmed"},
                     Categories, {0}, {60})

NextCategory ==
    \/ \E c \in Categories, value \in BOOLEAN : SetCategoryActive(c, value)
    \/ \E k \in Kinds : \E t \in CategoryInputs(k) : ApiCreate(k, t)
    \/ \E k \in Kinds : \E id \in 1..MaxTx : \E st \in {"pending", "confirmed"} :
          ApiSetStatus(k, id, st)
    \/ Calculate("u1", 1, 3, "annual")

SpecCategory == Init /\ [][NextCategory]_vars

(***************************************************************************)
(* The tax amount over a transaction's life: created through the API, then *)
(* changed by requests that carry some of its fields.                      *)
(***************************************************************************)
\* attrs.get(f, d) on the validated fields of a request.
Get(attrs, f, d) == IF f \in DOMAIN attrs THEN attrs[f] ELSE d

IsZero(x) == x.whole = 0 /\ x.rem = 0

\* IncomeSerializer / ExpenseSerializer.validate: with a positive tax_rate
\* and no tax_amount among the supplied fields, tax_amount is computed from
\* the supplied fields alone (amount 0 and tax included when absent).
ValidatedTaxAmount(attrs) ==
    calculate_tax_amount(
        [amount |-> Get(attrs, "amount", 0),
         tax_rate |-> Get(attrs, "tax_rate", 0),
         is_tax_inclusive |-> Get(attrs, "is_tax_inclusive", TRUE)])

\* IncomeViewSet / ExpenseViewSet.partial_update: the serializer validates
\* the supplied fields, sets them on the stored instance and saves it;
\* Model.save() computes the tax when the instance holds none, the pre_save
\* receivers apply the business rules, post_save invalidates.
ApiPartialUpdate(kind, id, attrs) ==
    /\ id \in DOMAIN Table(kind)
    /\ now < MaxClock
    /\ LET stored == Table(kind)[id]
           instance == [f \in DOMAIN stored |-> Get(attrs, f, stored[f])]
           held == IF Get(attrs, "tax_rate", 0) > 0
                        /\ Get(attrs, "tax_amount", 0) = 0
                   THEN ValidatedTaxAmount(attrs)
                   ELSE Exact(instance.tax_amount)
           tax == IF IsZero(held) /\ instance.tax_rate > 0
                  THEN calculate_tax_amount(instance)
                  ELSE held
           rejected ==
               \/ "amount" \in DOMAIN attrs /\ attrs.amount <= 0
               \/ instance.payment_date # NoDate
                    /\ instance.payment_date < instance.date
               \/ Exceeds(tax, instance.amount)
               \/ kind = "Expense"
                    /\ (instance.business_use_percentage < 0
                          \/ instance.business_use_percentage > 100)
               \/ ~CategoryIsActive(instance.category)
           row == [instance EXCEPT !.tax_amount = Quantize(tax)]
       IN IF rejected
          THEN /\ resp' = ErrorResp
               /\ UNCHANGED <<incomes, expenses, calcs, now>>
          ELSE /\ now' = now + 1
               /\ incomes' = IF kind = "Income"
                             THEN Insert(incomes, id, row)
                             ELSE incomes
               /\ expenses' = IF kind = "Expense"
                              THEN Insert(expenses, id, row)
                              ELSE expenses
               /\ calcs' = invalidate_tax_calculations(
                               calcs, instance.user, instance.date, now')
               /\ resp' = [kind |-> "saved", request_fields |-> DOMAIN attrs]
    /\ UNCHANGED <<runs, nextId, nextCalcId, detail, category_is_active,
                   accounts>>

TaxInputs(kind) ==
    IF kind = "Income"
    THEN [user : {"u1"}, category : {"c_active"}, date : {1},
          amount : {Yen(10000)}, payment_date : {NoDate},
          tax_amount : {0, Yen(500)}, tax_rate : {10},
          is_tax_inclusive : BOOLEAN, status : {"confirmed"}]
    ELSE [user : {"u1"}, category : {"c_active"}, date : {1},
          amount : {Yen(10000)}, payment_date : {NoDate},
          tax_amount : {0, Yen(500)}, tax_rate : {10},
          is_tax_inclusive : BOOLEAN, status : {"confirmed"},
          business_use_percentage : {60}]

PatchInputs ==
    {[amount |-> Yen(20000)],
     [tax_rate |-> 8],
     [amount |-> Yen(20000), tax_rate |-> 8],
     [amount |-> 0],
     [tax_amount |-> Yen(700)]}

NextTax ==
    \/ \E k \in Kinds : \E t \in TaxInputs(k) : ApiCreate(k, t)
    \/ \E k \in Kinds : \E id \in 1..MaxTx : \E attrs \in PatchInputs :
          ApiPartialUpdate(k, id, attrs)

SpecTax == Init /\ [][NextTax]_vars

(***************************************************************************)
(* Login and account lockout.  One account in the Django project's user    *)
(* table and one in the FastAPI application's; here the clock now counts   *)
(* ticks of ten minutes, and a request is handled within one tick.  The    *)
(* lock timestamp is account_locked_until (Django) / locked_until          *)
(* (FastAPI).                                                              *)
(***************************************************************************)
\* timedelta(minutes=30), in ticks.
LockoutTicks == 3
\* "Lock account after 5 failed attempts"
LockoutThreshold == 5
\* Failed attempts are counted up to this number.
MaxAttempts == 6

IsLocked(account) ==
    account.account_locked_until # NoTime /\ account.account_locked_until > now

Tokens(b) == [kind |-> "tokens", backend |-> b, at |-> now]

\* The account after a failed attempt is counted.
FailedAttempt(account) ==
    LET n == account.failed_login_attempts + 1
    IN [failed_login_attempts |-> n,
        account_locked_until |->
            IF n >= LockoutThreshold THEN now + LockoutTicks
            ELSE account.account_locked_until]

\* apps.users LoginView.post with LoginSerializer.validate: authenticate(),
\* then the lock test; every invalid request for a known username counts as
\* a failed attempt.
LoginView_post(password_ok) ==
    LET user == accounts["django"]
    IN /\ IF password_ok /\ ~IsLocked(user)
          THEN /\ accounts' = [accounts EXCEPT
                                  !["django"].failed_login_attempts = 0]
               /\ resp' = Tokens("django")
          ELSE /\ user.failed_login_attempts < MaxAttempts
               /\ accounts' = [accounts EXCEPT
                                  !["django"] = FailedAttempt(user)]
               /\ resp' = ErrorResp
       /\ UNCHANGED <<incomes, expenses, nextId, calcs, nextCalcId, detail,
                      now, runs, category_is_active>>

\* path('auth/login/', TokenObtainPairView.as_view()) of the project's
\* urls: the token view of rest_framework_simplejwt authenticates the
\* credentials and issues the tokens; it reads and writes neither
\* failed_login_attempts nor account_locked_until.
TokenObtainPairView_post(password_ok) ==
    /\ resp' = IF password_ok THEN Tokens("django") ELSE ErrorResp
    /\ UNCHANGED <<incomes, expenses, nextId, calcs, nextCalcId, detail, now,
                   runs, category_is_active, accounts>>

\* The FastAPI endpoint POST /login.
login(password_ok) ==
    LET user == accounts["fastapi"]
    IN /\ IF IsLocked(user)
          THEN /\ resp' = ErrorResp
               /\ UNCHANGED accounts
          ELSE IF ~password_ok
          THEN /\ user.failed_login_attempts < MaxAttempts
               /\ accounts' = [accounts EXCEPT
                                  !["fastapi"] = FailedAttempt(user)]
               /\ resp' = ErrorResp
          ELSE /\ accounts' = [accounts EXCEPT
                                  !["fastapi"] =
                                      [failed_login_attempts |-> 0,
                                       account_locked_until |-> NoTime]]
               /\ resp' = Tokens("fastapi")
       /\ UNCHANGED <<incomes, expenses, nextId, calcs, nextCalcId, detail,
                      now, runs, category_is_active>>

\* Ten minutes pass.
Tick ==
    /\ now < MaxClock
    /\ now' = now + 1
    /\ UNCHANGED <<incomes, expenses, nextId, calcs, nextCalcId, detail, resp,
                   runs, category_is_active, accounts>>

NextLogin ==
    \/ \E password_ok \in BOOLEAN : LoginView_post(password_ok)
    \/ \E password_ok \in BOOLEAN : TokenObtainPairView_post(password_ok)
    \/ \E password_ok \in BOOLEAN : login(password_ok)
    \/ Tick

SpecLogin == Init /\ [][NextLogin]_vars

(***************************************************************************)
(* Properties                                                              *)
(***************************************************************************)
Header(r) == [user |-> r.user, date |-> r.date, status |-> r.status]

\* The rows an Income / Expense write of this step created, changed or
\* deleted (user, date and status of the written instance).
Written(old, new) ==
    {Header(new[i]) : i \in {j \in DOMAIN new :
                                j \notin DOMAIN old \/ old[j] # new[j]}}
    \cup {Header(old[i]) : i \in DOMAIN old \ DOMAIN new}

WrittenRows == Written(incomes, incomes') \cup Written(expenses, expenses')

Covers(c, r) ==
    /\ c.user = r.user
    /\ c.start_date <= r.date
    /\ r.date <= c.end_date

Totals(c) ==
    <<c.total_income, c.total_income_tax, c.total_expenses,
      c.total_expense_tax, c.net_income, c.net_tax, c.blue_tax_deduction,
      c.taxable_income>>

\* C1: every create, update or delete of an Income or Expense dated inside
\* the range of a non-final TaxCalculation of the same owner touches that
\* record's updated_at marker within the same write.
C1_WriteMarksStale ==
    [][\A r \in WrittenRows : \A c \in DOMAIN calcs :
          (~calcs[c].is_final /\ Covers(calcs[c], r))
             => /\ c \in DOMAIN calcs'
                /\ calcs'[c].updated_at > calcs[c].updated_at]_vars

\* C2: a write of an Income or Expense dated inside the range of a FINAL
\* TaxCalculation of the same owner leaves that record unchanged.
C2_FinalUntouchedByWrites ==
    [][\A r \in WrittenRows : \A c \in DOMAIN calcs :
          (calcs[c].is_final /\ Covers(calcs[c], r))
             => /\ c \in DOMAIN calcs'
                /\ calcs'[c] = calcs[c]]_vars

\* C3: the totals of a TaxCalculation that is marked is_final are never
\* overwritten by a recalculation.
C3_FinalNotRecalculated ==
    [][\A c \in DOMAIN calcs :
          calcs[c].is_final
             => /\ c \in DOMAIN calcs'
                /\ Totals(calcs'[c]) = Totals(calcs[c])]_vars

\* C4: after a calculate call exactly one TaxCalculation is stored for the
\* key (owner, calculation_type, start_date, end_date) that was calculated.
C4_CalculatePersistsOneRecord ==
    resp.kind = "calculation"
       => Cardinality({c \in DOMAIN calcs :
                          KeyOf(calcs[c]) = <<resp.user, resp.calculation_type,
                                              resp.period_start, resp.period_end>>})
          = 1

\* The rows a response is about: the requesting user's rows in the period
\* (every user's rows for the summary of an administrator).
InScope(table, r) ==
    {i \in DOMAIN table :
        /\ table[i].date >= r.period_start
        /\ table[i].date <= r.period_end
        /\ \/ table[i].user = r.user
           \/ r.kind = "summary" /\ IsAdmin(r.user)}

ConfirmedOnly(table, ids) == {i \in ids : table[i].status = "confirmed"}

\* C5: the totals of the tax calculation, of the financial summary and of
\* the admin recalculation count confirmed transactions only.
C5_OnlyConfirmedCounted ==
    /\ resp.kind \in {"calculation", "summary"}
          => /\ resp.total_income =
                   SumAmount(incomes, ConfirmedOnly(incomes, InScope(incomes, resp)))
             /\ resp.total_expenses =
                   SumAmount(expenses, ConfirmedOnly(expenses, InScope(expenses, resp)))
             /\ resp.total_income_tax =
                   SumTaxAmount(incomes, ConfirmedOnly(incomes, InScope(incomes, resp)))
             /\ resp.total_expense_tax =
                   SumTaxAmount(expenses, ConfirmedOnly(expenses, InScope(expenses, resp)))
    /\ \A c \in DOMAIN calcs :
          calcs[c].updated_at > 0
             => /\ calcs[c].total_income =
                      SumAmount(incomes,
                          ConfirmedInPeriod(incomes, calcs[c].user,
                              calcs[c].start_date, calcs[c].end_date))
                /\ calcs[c].total_expenses =
                      SumAmount(expenses,
                          ConfirmedInPeriod(expenses, calcs[c].user,
                              calcs[c].start_date, calcs[c].end_date))

\* The deductible total: amount * business_use_percentage / 100 summed over
\* the confirmed expenses a response is about.
Deductible(ids) ==
    SumFn([i \in ids |->
              (expenses[i].amount \div 100) * expenses[i].business_use_percentage])

DeductibleTotal(r) == Deductible(ConfirmedOnly(expenses, InScope(expenses, r)))

\* C6: in every computed and every recalculated TaxCalculation net_income
\* is total_income minus the deductible total (amount *
\* business_use_percentage / 100) of the period's confirmed expenses, not
\* total_income minus the raw expense total.
C6_NetIncomeUsesDeductible ==
    /\ resp.kind = "calculation"
          => resp.net_income = resp.total_income - DeductibleTotal(resp)
    /\ \A c \in DOMAIN calcs :
          calcs[c].updated_at > 0
             => calcs[c].net_income =
                   calcs[c].total_income
                   - Deductible(ConfirmedInPeriod(expenses, calcs[c].user,
                                    calcs[c].start_date, calcs[c].end_date))

\* C7: blue_tax_deduction never exceeds the cap nor a positive net_income,
\* and it is 0 whenever net_income <= 0.
C7_DeductionCapped ==
    resp.kind = "calculation"
       => /\ resp.blue_tax_deduction <= BlueTaxCap
          /\ resp.net_income > 0 => resp.blue_tax_deduction <= resp.net_income
          /\ resp.net_income <= 0 => resp.blue_tax_deduction = 0

\* C8: taxable_income is max(net_income - blue_tax_deduction -
\* basic_deduction, 0) in the tax calculation.
C8_BasicDeductionSubtracted ==
    resp.kind = "calculation"
       => resp.taxable_income =
             (IF resp.net_income - resp.blue_tax_deduction - BasicDeduction > 0
              THEN resp.net_income - resp.blue_tax_deduction - BasicDeduction
              ELSE 0)

\* C9: blue_tax_deduction is min(net_income, 650,000) for an owner approved
\* for the blue tax return and 0 for an owner who is not approved or has no
\* detail record; net_income 500,000 with approval gives a deduction of
\* 500,000 and a taxable_income of 0.
C9_BlueTaxDeduction ==
    resp.kind = "calculation"
       => LET d == detail[resp.user]
              approved == d.exists /\ d.blue_tax_return_approved
          IN /\ approved /\ resp.net_income <= 65000000
                   => resp.blue_tax_deduction = resp.net_income
             /\ approved /\ resp.net_income > 65000000
                   => resp.blue_tax_deduction = 65000000
             /\ ~approved => resp.blue_tax_deduction = 0
             /\ approved /\ resp.net_income = 50000000
                   => /\ resp.blue_tax_deduction = 50000000
                      /\ resp.taxable_income = 0

C9_Witness ==
    /\ resp.kind = "calculation"
    /\ detail[resp.user].exists
    /\ detail[resp.user].blue_tax_return_approved
    /\ resp.net_income = 50000000
    /\ resp.blue_tax_deduction = 50000000
    /\ resp.taxable_income = 0

\* C10: taxable_income is never negative: in the tax calculation response,
\* in every stored or recalculated TaxCalculation and in the taxable_income
\* property of the financial app's TaxCalculation.
C10_TaxableIncomeNonNegative ==
    /\ resp.kind \in {"calculation", "fin"} => resp.taxable_income >= 0
    /\ \A c \in DOMAIN calcs : calcs[c].taxable_income >= 0

C10_Witness ==
    /\ resp.kind = "calculation"
    /\ resp.net_income < 0
    /\ resp.blue_tax_deduction = 0
    /\ resp.taxable_income = 0
    /\ \E c \in DOMAIN calcs :
          /\ calcs[c].updated_at > 0
          /\ calcs[c].net_income < calcs[c].blue_tax_deduction
          /\ calcs[c].taxable_income = 0

\* C11: a tax calculation request with start_date >= end_date is rejected
\* with an error before anything is aggregated, on the calculate action as
\* on TaxCalculation creation: no calculation result is ever returned for
\* such a range and no such TaxCalculation is stored.
C11_EmptyRangeRejected ==
    /\ resp.kind = "calculation" => resp.period_start < resp.period_end
    /\ \A c \in DOMAIN calcs : calcs[c].start_date < calcs[c].end_date

\* The four aggregates of the confirmed rows of a store S for the owner and
\* range of a TaxCalculation r.
AggregateOf(S, r) ==
    LET inc == {i \in DOMAIN S.incomes :
                   /\ S.incomes[i].user = r.user
                   /\ S.incomes[i].status = "confirmed"
                   /\ r.start_date <= S.incomes[i].date
                   /\ S.incomes[i].date <= r.end_date}
        exp == {i \in DOMAIN S.expenses :
                   /\ S.expenses[i].user = r.user
                   /\ S.expenses[i].status = "confirmed"
                   /\ r.start_date <= S.expenses[i].date
                   /\ S.expenses[i].date <= r.end_date}
    IN <<SumAmount(S.incomes, inc), SumTaxAmount(S.incomes, inc),
         SumAmount(S.expenses, exp), SumTaxAmount(S.expenses, exp)>>

Figures(c) ==
    <<c.total_income, c.total_income_tax, c.total_expenses,
      c.total_expense_tax>>

\* The step in which the recalculation of worker p saves its record.
Saving(p) == runs[p].pc = 5 /\ runs'[p].pc = 0

\* C12: a recalculation never persists a result that misses a write made
\* while it was running: the totals it saves are the aggregates of the
\* transactions stored at the moment of the save.
C12_NoOutdatedResultPersisted ==
    [][\A p \in Procs :
          Saving(p)
             => Figures(calcs'[runs[p].c])
                = AggregateOf(Store, calcs[runs[p].c])]_vars

\* Every column a run of the recalculation has computed for its record.
RunTotals(r) ==
    LET n == r.total_income - r.total_expenses
    IN <<r.total_income, r.total_income_tax, r.total_expenses,
         r.total_expense_tax, n, r.total_income_tax - r.total_expense_tax,
         r.blue_tax_deduction,
         IF n - r.blue_tax_deduction > 0 THEN n - r.blue_tax_deduction ELSE 0>>

C14_SingleSnapshot ==
    \A p \in Procs :
       runs[p].pc = 5
          => \E S \in runs[p].seen :
                Figures(runs[p].calculation)
                = AggregateOf(S, runs[p].calculation)

\* The writes of this step whose transaction is cancelled before and
\* after it: (user, date) of the old and of the new version of the row.
CancelledWritten(old, new) ==
    LET ids == {i \in DOMAIN old \cup DOMAIN new :
                   /\ i \notin DOMAIN old \/ i \notin DOMAIN new
                        \/ old[i] # new[i]
                   /\ i \in DOMAIN old => old[i].status = "cancelled"
                   /\ i \in DOMAIN new => new[i].status = "cancelled"}
    IN {Header(old[i]) : i \in ids \cap DOMAIN old}
       \cup {Header(new[i]) : i \in ids \cap DOMAIN new}

\* C15: creating, updating or deleting a cancelled transaction dated inside
\* the range of a non-final TaxCalculation of the same owner leaves that
\* TaxCalculation unchanged, marker included.
C15_CancelledDoesNotInvalidate ==
    [][\A r \in CancelledWritten(incomes, incomes')
                  \cup CancelledWritten(expenses, expenses') :
          \A c \in DOMAIN calcs :
             (~calcs[c].is_final /\ Covers(calcs[c], r))
                => calcs'[c] = calcs[c]]_vars

\* C16: the invalidation done by an Income / Expense write recomputes
\* nothing: a TaxCalculation of the written transaction's owner whose range
\* contains its date changes in updated_at only, and every other
\* TaxCalculation is left unchanged.
C16_InvalidationOnlyTouchesMarker ==
    [][(incomes' # incomes \/ expenses' # expenses)
          => \A c \in DOMAIN calcs :
                /\ c \in DOMAIN calcs'
                /\ [calcs'[c] EXCEPT !.updated_at = 0]
                   = [calcs[c] EXCEPT !.updated_at = 0]
                /\ (\A r \in WrittenRows : ~Covers(calcs[c], r))
                      => calcs'[c] = calcs[c]]_vars

\* A recalculated record of u1 was invalidated by a later write of u1 dated
\* in its range: the marker is the time of that write, the totals are the
\* old ones, and the records of the other owner and of the other range are
\* as they were created.
C16_Witness ==
    /\ calcs[1].total_income > 0
    /\ calcs[1].total_income
          # SumAmount(incomes, ConfirmedInPeriod(incomes, "u1", 1, 2))
    /\ calcs[1].updated_at = now
    /\ calcs[2].updated_at = 0
    /\ calcs[3].updated_at = 0
    /\ resp = OkResp

\* C17: every stored Income and Expense has tax_amount <= amount.
C17_TaxAmountAtMostAmount ==
    /\ \A i \in DOMAIN incomes : incomes[i].tax_amount <= incomes[i].amount
    /\ \A i \in DOMAIN expenses : expenses[i].tax_amount <= expenses[i].amount

\* A save was rejected while a transaction is stored whose auto-computed
\* tax_amount (600 of 1,000 at a rate of 150, tax included) is within the
\* amount.
C17_Witness ==
    /\ resp = ErrorResp
    /\ \E i \in DOMAIN incomes :
          /\ incomes[i].tax_rate = 150
          /\ incomes[i].tax_amount = Yen(600)
          /\ incomes[i].amount = Yen(1000)

\* C18: no stored transaction has a negative amount, a tax_rate outside
\* [0,100] or (Expense) a business_use_percentage outside [0,100], and no
\* such input is stored with the value changed.
C18_OutOfRangeRejected ==
    /\ \A i \in DOMAIN incomes :
          /\ incomes[i].amount >= 0
          /\ incomes[i].tax_rate >= 0
          /\ incomes[i].tax_rate <= 100
    /\ \A i \in DOMAIN expenses :
          /\ expenses[i].amount >= 0
          /\ expenses[i].tax_rate >= 0
          /\ expenses[i].tax_rate <= 100
          /\ expenses[i].business_use_percentage >= 0
          /\ expenses[i].business_use_percentage <= 100

\* A stored row that passes the rules a save enforces.
PassesRules(kind, r) ==
    /\ r.tax_amount <= r.amount
    /\ r.payment_date = NoDate \/ r.payment_date >= r.date
    /\ r.category # "c_inactive"
    /\ kind = "Expense"
          => r.business_use_percentage \in 0..100

\* C19: a save that fails validation is not applied in part: the step that
\* answers with an error changes no Income, no Expense and no
\* TaxCalculation, and no row that breaks a rule is ever stored.
C19_FailedSaveChangesNothing ==
    [][/\ resp' = ErrorResp
             => /\ incomes' = incomes
                /\ expenses' = expenses
                /\ nextId' = nextId
                /\ calcs' = calcs
       /\ \A i \in DOMAIN incomes' : PassesRules("Income", incomes'[i])
       /\ \A i \in DOMAIN expenses' : PassesRules("Expense", expenses'[i])]_vars

\* A save was rejected after an Expense had been stored and the record
\* covering it had been marked: the stored state is still in place.
C19_Witness ==
    /\ resp = ErrorResp
    /\ DOMAIN expenses # {}
    /\ calcs[1].updated_at > 0
    /\ calcs[1].updated_at = now

\* The calendar months that lie fully or partly inside [first, last].
MonthsInside(first, last) ==
    {ym \in (2022..2025) \X (1..12) :
        /\ ym[1] * 10000 + ym[2] * 100 + 1 <= last
        /\ ym[1] * 10000 + ym[2] * 100 + 31 >= first}

\* ym is a month before the month zn.
MonthBefore(ym, zn) == ym[1] < zn[1] \/ (ym[1] = zn[1] /\ ym[2] < zn[2])

C21_TaxRoundTrip ==
    (resp.kind = "amounts" /\ resp.input.is_tax_inclusive)
       => LET a == resp.input.amount
              back == resp.amount_excluding_tax + resp.row.tax_amount
              back2 == resp.excluding_rounded + resp.row.tax_amount
          IN /\ back - a <= 1 /\ a - back <= 1
             /\ back2 - a <= 1 /\ a - back2 <= 1

\* Scenario A: 10,000 at 10%, tax included: tax 909.09, net 9,090.91, and
\* the two add up to 10,000.
C21_Witness ==
    /\ resp.kind = "amounts"
    /\ resp.input.is_tax_inclusive
    /\ resp.input.amount = 1000000
    /\ resp.input.tax_rate = 10
    /\ resp.row.tax_amount = 90909
    /\ resp.amount_excluding_tax = 909091
    /\ resp.amount_excluding_tax + resp.row.tax_amount = 1000000

\* C22: the tax-exclusive amount is amount - tax_amount when the tax is
\* included and amount otherwise, amount_including_tax is amount when the
\* tax is included and amount + tax_amount otherwise, and every net-amount
\* accessor gives that tax-exclusive amount.
C22_NetAmountAccessors ==
    resp.kind = "amounts"
       => LET r == resp.row
              net == IF r.is_tax_inclusive THEN r.amount - r.tax_amount
                     ELSE r.amount
              gross == IF r.is_tax_inclusive THEN r.amount
                       ELSE r.amount + r.tax_amount
          IN /\ resp.amount_excluding_tax = net
             /\ resp.amount_including_tax = gross
             /\ resp.net_amount = net

\* C23: for every Asset, under both methods, accumulated_depreciation is at
\* most purchase_amount - salvage_value, so the book value is never negative
\* and never below salvage_value.
C23_DepreciationFloor ==
    resp.kind = "asset"
       => /\ resp.asset.accumulated_depreciation
                <= resp.asset.purchase_amount - resp.asset.salvage_value
          /\ resp.book_value >= 0
          /\ resp.book_value >= resp.asset.salvage_value

\* C24: for a declining_balance Asset annual_depreciation is the book value
\* at the start of the period times 20%, limited so that the book value does
\* not fall below salvage_value.
C24_DecliningBalanceOnBookValue ==
    (resp.kind = "asset"
        /\ resp.asset.depreciation_method = "declining_balance")
       => LET bv == resp.asset.purchase_amount
                       - resp.asset.accumulated_depreciation
              rated == MulDiv(bv, 2, 10)
              room == Max2(bv - resp.asset.salvage_value, 0)
          IN resp.annual_depreciation
                = IF Exceeds(rated, room) THEN [rated EXCEPT !.whole = room,
                                                             !.rem = 0]
                  ELSE rated

\* C25: for a straight_line Asset with useful_life_years >= 1,
\* annual_depreciation times useful_life_years is purchase_amount -
\* salvage_value.
C25_StraightLine ==
    (resp.kind = "asset"
        /\ resp.asset.depreciation_method = "straight_line"
        /\ resp.asset.useful_life_years >= 1)
       => LET x == resp.annual_depreciation
              n == resp.asset.useful_life_years
          IN /\ x.den = n
             /\ x.rem \in 0..(n - 1)
             /\ x.whole * n + x.rem
                   = resp.asset.purchase_amount - resp.asset.salvage_value

\* Scenario C: purchase 1,200,000, salvage 0, five years: 240,000 a year.
C25_Witness ==
    /\ resp.kind = "asset"
    /\ resp.asset.depreciation_method = "straight_line"
    /\ resp.asset.purchase_amount = 120000000
    /\ resp.asset.salvage_value = 0
    /\ resp.asset.useful_life_years = 5
    /\ resp.annual_depreciation.whole = 24000000
    /\ resp.annual_depreciation.rem = 0

\* C26: for a quarter q in 1..4 the quarter filter keeps a transaction dated
\* in month m exactly when ((m - 1) div 3) + 1 = q.
C26_QuarterFilter ==
    (resp.kind = "filtered" /\ resp.quarter \in 1..4)
       => /\ resp.result \subseteq resp.queryset
          /\ \A r \in resp.queryset :
                r \in resp.result
                   <=> ((Month(r.date) - 1) \div 3) + 1 = resp.quarter

\* The fourth quarter is asked for, of a December and a September
\* transaction; December alone is kept.
C26_Witness ==
    /\ resp.kind = "filtered"
    /\ resp.quarter = 4
    /\ \E r \in resp.queryset : Month(r.date) = 9
    /\ \E r \in resp.queryset : Month(r.date) = 12
    /\ resp.result # {}
    /\ \A r \in resp.result : Month(r.date) = 12

\* The stored transactions all pass the rules Model.save() applies.
StoredCanBeSaved ==
    \A k \in Kinds : \A i \in DOMAIN Table(k) :
        ~BusinessRuleError(k, Table(k)[i])

\* C27: a new transaction is not saved with an inactive category; a
\* transaction whose category is deactivated afterwards keeps the category,
\* can still be saved, and is still counted by the tax calculation.
C27_InactiveCategory ==
    [][/\ \A k \in Kinds : \A i \in DOMAIN Table(k)' \ DOMAIN Table(k) :
             category_is_active[Table(k)'[i].category]
       /\ category_is_active' # category_is_active
             => incomes' = incomes /\ expenses' = expenses
       /\ StoredCanBeSaved'
       /\ resp'.kind = "calculation"
             => /\ resp'.total_income =
                      SumAmount(incomes', ConfirmedOnly(incomes',
                                           InScope(incomes', resp')))
                /\ resp'.total_expenses =
                      SumAmount(expenses', ConfirmedOnly(expenses',
                                            InScope(expenses', resp')))]_vars

\* The confirmed transactions a TaxCalculation covers, in given tables.
CoveredConfirmed(inc, exp, c) ==
    <<{<<i, inc[i]>> : i \in ConfirmedInPeriod(inc, c.user, c.start_date,
                                                c.end_date)},
      {<<i, exp[i]>> : i \in ConfirmedInPeriod(exp, c.user, c.start_date,
                                                c.end_date)}>>

\* C28: whenever the set of confirmed transactions covered by a non-final
\* TaxCalculation changes, that record's updated_at marker is touched; this
\* includes a date moved out of the range and the admin bulk confirmation.
C28_ChangedCoverageMarksStale ==
    [][\A c \in DOMAIN calcs :
          (/\ ~calcs[c].is_final
           /\ CoveredConfirmed(incomes, expenses, calcs[c])
                 # CoveredConfirmed(incomes', expenses', calcs[c]))
             => /\ c \in DOMAIN calcs'
                /\ calcs'[c].updated_at > calcs[c].updated_at]_vars

\* A stored tax_amount that was supplied: non-zero and not the computed one.
SuppliedTax(r) ==
    /\ r.tax_amount # 0
    /\ r.tax_amount # Quantize(calculate_tax_amount(r))

\* C29: a save with tax_amount = 0 and tax_rate > 0 stores the tax computed
\* from amount and tax_rate by the formula of is_tax_inclusive; a supplied
\* non-zero tax_amount is stored unchanged, also by a later save that
\* changes amount or tax_rate and carries no tax_amount.
C29_TaxAmountOnSave ==
    [][\A k \in Kinds : \A i \in DOMAIN Table(k)' :
          LET new == Table(k)'[i]
              computed == Quantize(calculate_tax_amount(new))
          IN IF i \notin DOMAIN Table(k)
             THEN new.tax_rate > 0
                     => new.tax_amount = computed \/ new.tax_amount # 0
             ELSE (/\ Table(k)[i] # new
                   /\ resp'.kind = "saved"
                   /\ "tax_amount" \notin resp'.request_fields)
                     => IF SuppliedTax(Table(k)[i])
                        THEN new.tax_amount = Table(k)[i].tax_amount
                        ELSE Table(k)[i].tax_amount = 0 /\ new.tax_rate > 0
                                => new.tax_amount = computed]_vars

\* C30: while the lock timestamp of an account is in the future no login
\* on it succeeds, whatever the password: no tokens are issued and the
\* failure counter is not reset; a failed attempt that brings
\* failed_login_attempts to 5 or more sets the lock 30 minutes ahead.
C30_NoLoginWhileLocked ==
    [][\A b \in Backends :
          /\ IsLocked(accounts[b])
                => /\ ~(resp' # resp /\ resp'.kind = "tokens"
                                     /\ resp'.backend = b)
                   /\ accounts'[b].failed_login_attempts
                         >= accounts[b].failed_login_attempts
          /\ (/\ accounts'[b].failed_login_attempts
                    > accounts[b].failed_login_attempts
              /\ accounts'[b].failed_login_attempts >= 5)
                => accounts'[b].account_locked_until = now + 3]_vars

====
